---- MODULE Spec2Model ----
(***************************************************************************)
(* Verification model of the e-book reader: the EPUB extraction pipeline   *)
(* (EpubReader.tsx), the PDF page-text reconstruction (PdfReader.tsx) and  *)
(* the progress bookkeeping of BookReader.tsx.                             *)
(*                                                                         *)
(* Text is modelled as a sequence of tokens.  A token is either a single   *)
(* character the regular expressions of the code look at ("<", ">", "/",   *)
(* "&", " ", "\n") or a word that no pattern of the code splits            *)
(* ("script", "amp;", "Hello").  The concatenation of the tokens is the    *)
(* JavaScript string; every pattern of the code is matched token-wise the  *)
(* way the regular expression engine matches it character-wise.            *)
(***************************************************************************)
EXTENDS Integers, Sequences, FiniteSets, TLC

\* ------------------------------------------------------------------------
\* Bounds of the model
\* ------------------------------------------------------------------------
MaxHtmlLen == 4

MaxReruns == 2

MaxItems == 3

MaxPages == 3

MaxClock == 1

MaxBookmarks == 2

MaxRenders == 4

\* ------------------------------------------------------------------------
\* Program constants
\* ------------------------------------------------------------------------
TitleLimit == 20000

\* ------------------------------------------------------------------------
\* String helpers (String.prototype / RegExp semantics)
\* ------------------------------------------------------------------------
MinOf(S) == CHOOSE x \in S : \A y \in S : x <= y

MaxOf(S) == CHOOSE x \in S : \A y \in S : x >= y

\* s.startsWith(pat, i): pat occurs in s at (1-based) position i
MatchAt(s, pat, i) ==
  /\ i >= 1
  /\ i + Len(pat) - 1 <= Len(s)
  /\ \A k \in 1..Len(pat) : s[i + k - 1] = pat[k]

\* first position >= from where token t occurs, 0 when there is none
RECURSIVE IndexOfTok(_, _, _)
IndexOfTok(s, t, from) ==
  IF from > Len(s) THEN 0
  ELSE IF s[from] = t THEN from
  ELSE IndexOfTok(s, t, from + 1)

\* first position >= from where the token sequence pat occurs, 0 when none
RECURSIVE IndexOfSeq(_, _, _)
IndexOfSeq(s, pat, from) ==
  IF from + Len(pat) - 1 > Len(s) THEN 0
  ELSE IF MatchAt(s, pat, from) THEN from
  ELSE IndexOfSeq(s, pat, from + 1)

\* \s of the regular expressions and of String.prototype.trim
IsWs(t) == t \in {" ", "\n", "\r"}

\* String.prototype.trim
RECURSIVE TrimStart(_)
TrimStart(s) == IF s # <<>> /\ IsWs(Head(s)) THEN TrimStart(Tail(s)) ELSE s

RECURSIVE TrimEnd(_)
TrimEnd(s) ==
  IF s # <<>> /\ IsWs(s[Len(s)]) THEN TrimEnd(SubSeq(s, 1, Len(s) - 1)) ELSE s

Trim(s) == TrimEnd(TrimStart(s))

\* ------------------------------------------------------------------------
\* ContentSanitizer: cleanHtmlContent, extractContentFromHtml
\* ------------------------------------------------------------------------

\* /<n[^>]*>[\s\S]*?<\/n>/ tried at position i: position of the last token
\* of the match, 0 when the pattern does not match at i
BlockEnd(s, n, i) ==
  IF ~MatchAt(s, <<"<", n>>, i) THEN 0
  ELSE LET j == IndexOfTok(s, ">", i + 2)
       IN  IF j = 0 THEN 0
           ELSE LET k == IndexOfSeq(s, <<"<", "/", n, ">">>, j + 1)
                IN  IF k = 0 THEN 0 ELSE k + 3

\* /<n[^>]*>/ tried at position i: position of the closing ">", 0 when the
\* pattern does not match at i
TagEnd(s, n, i) ==
  IF ~MatchAt(s, <<"<", n>>, i) THEN 0 ELSE IndexOfTok(s, ">", i + 2)

\* s.replace(/<n[^>]*>[\s\S]*?<\/n>/gi, '') scanning from position i
RECURSIVE RemoveBlocksFrom(_, _, _)
RemoveBlocksFrom(s, n, i) ==
  IF i > Len(s) THEN <<>>
  ELSE LET e == BlockEnd(s, n, i)
       IN  IF e # 0 THEN RemoveBlocksFrom(s, n, e + 1)
           ELSE <<s[i]>> \o RemoveBlocksFrom(s, n, i + 1)

RemoveBlocks(s, n) == RemoveBlocksFrom(s, n, 1)

\* s.replace(/<n[^>]*>/gi, '') scanning from position i
RECURSIVE RemoveTagsFrom(_, _, _)
RemoveTagsFrom(s, n, i) ==
  IF i > Len(s) THEN <<>>
  ELSE LET e == TagEnd(s, n, i)
       IN  IF e # 0 THEN RemoveTagsFrom(s, n, e + 1)
           ELSE <<s[i]>> \o RemoveTagsFrom(s, n, i + 1)

RemoveTags(s, n) == RemoveTagsFrom(s, n, 1)

\* s.replace(/&name/g, repl) scanning from position i; the entity &name is
\* the token "&" followed by the token name (which ends in ";")
RECURSIVE ReplaceEntityFrom(_, _, _, _)
ReplaceEntityFrom(s, name, repl, i) ==
  IF i > Len(s) THEN <<>>
  ELSE IF MatchAt(s, <<"&", name>>, i)
       THEN <<repl>> \o ReplaceEntityFrom(s, name, repl, i + 2)
       ELSE <<s[i]>> \o ReplaceEntityFrom(s, name, repl, i + 1)

ReplaceEntity(s, name, repl) == ReplaceEntityFrom(s, name, repl, 1)

\* the chain of replacements of cleanHtmlContent, in the order of the code
cleanHtmlContent(html) ==
  LET s1 == RemoveBlocks(html, "script")
      s2 == RemoveBlocks(s1, "style")
      s3 == RemoveTags(s2, "meta")
      s4 == RemoveTags(s3, "link")
      s5 == ReplaceEntity(s4, "nbsp;", " ")
      s6 == ReplaceEntity(s5, "amp;", "&")
      s7 == ReplaceEntity(s6, "lt;", "<")
      s8 == ReplaceEntity(s7, "gt;", ">")
      s9 == ReplaceEntity(s8, "quot;", "\"")
      s10 == ReplaceEntity(s9, "#39;", "'")
  IN  Trim(s10)

\* content.match(/<body[^>]*>([\s\S]*?)<\/body>/i): the capture group of the
\* first match, wrapped in a one-element sequence; <<>> when no match
RECURSIVE BodyMatchFrom(_, _)
BodyMatchFrom(s, i) ==
  IF i > Len(s) THEN <<>>
  ELSE LET e == BlockEnd(s, "body", i)
       IN  IF e # 0
           THEN <<SubSeq(s, IndexOfTok(s, ">", i + 2) + 1, e - 4)>>
           ELSE BodyMatchFrom(s, i + 1)

extractContentFromHtml(html) ==
  LET content == cleanHtmlContent(html)
      bodyMatch == BodyMatchFrom(content, 1)
  IN  IF bodyMatch # <<>> THEN bodyMatch[1] ELSE content

\* ------------------------------------------------------------------------
\* Title derivation: cleanTextContent, extractTitleFromHtml
\* ------------------------------------------------------------------------

\* text.replace(/<[^>]*>/g, '') scanning from position i
RECURSIVE RemoveAnyTagFrom(_, _)
RemoveAnyTagFrom(s, i) ==
  IF i > Len(s) THEN <<>>
  ELSE LET e == IF s[i] = "<" THEN IndexOfTok(s, ">", i + 1) ELSE 0
       IN  IF e # 0 THEN RemoveAnyTagFrom(s, e + 1)
           ELSE <<s[i]>> \o RemoveAnyTagFrom(s, i + 1)

\* .replace(/\r\n/g, '\n').replace(/\r/g, '\n'): every "\r\n" and every
\* remaining "\r" becomes "\n"
RECURSIVE NormalizeEol(_, _)
NormalizeEol(s, i) ==
  IF i > Len(s) THEN <<>>
  ELSE IF MatchAt(s, <<"\r", "\n">>, i) THEN <<"\n">> \o NormalizeEol(s, i + 2)
  ELSE IF s[i] = "\r" THEN <<"\n">> \o NormalizeEol(s, i + 1)
  ELSE <<s[i]>> \o NormalizeEol(s, i + 1)

\* s.split('\n') from position i: the sequence of lines
RECURSIVE SplitLines(_, _)
SplitLines(s, i) ==
  LET k == IndexOfTok(s, "\n", i)
  IN  IF k = 0 THEN <<SubSeq(s, i, Len(s))>>
      ELSE <<SubSeq(s, i, k - 1)>> \o SplitLines(s, k + 1)

\* lines.join('\n\n')
RECURSIVE JoinLines(_)
JoinLines(ls) ==
  IF ls = <<>> THEN <<>>
  ELSE IF Len(ls) = 1 THEN ls[1]
  ELSE ls[1] \o <<"\n", "\n">> \o JoinLines(Tail(ls))

cleanTextContent(text) ==
  LET noTags == RemoveAnyTagFrom(text, 1)
      eol == NormalizeEol(noTags, 1)
      lines == SplitLines(eol, 1)
      trimmed == [k \in 1..Len(lines) |-> Trim(lines[k])]
      kept == SelectSeq(trimmed, LAMBDA l : Len(l) > 0)
      joined == JoinLines(kept)
  IN  SubSeq(joined, 1, IF Len(joined) < TitleLimit THEN Len(joined) ELSE TitleLimit)

\* html.match(/<n[^>]*>(.*?)<\/n>/i): the capture group of the first match
\* wrapped in a one-element sequence, <<>> when no match.  "." matches no line
\* terminator, so a match at i needs the first "</n>" after the opening tag
\* to come before any "\n" or "\r".
RECURSIVE TitleMatchFrom(_, _, _)
TitleMatchFrom(s, n, i) ==
  IF i > Len(s) THEN <<>>
  ELSE LET e == BlockEnd(s, n, i)
           j == IndexOfTok(s, ">", i + 2)
       IN  IF e # 0 /\ \A k \in (j + 1)..(e - 4) : s[k] \notin {"\n", "\r"}
           THEN <<SubSeq(s, j + 1, e - 4)>>
           ELSE TitleMatchFrom(s, n, i + 1)

titlePatterns == <<"title", "h1", "h2", "h3">>

\* the loop over titlePatterns from pattern number p: the title wrapped in a
\* one-element sequence, <<>> for null
RECURSIVE TitleFromPattern(_, _)
TitleFromPattern(html, p) ==
  IF p > Len(titlePatterns) THEN <<>>
  ELSE LET match == TitleMatchFrom(html, titlePatterns[p], 1)
       IN  IF match # <<>> /\ Len(Trim(match[1])) > 0
           THEN <<cleanTextContent(match[1])>>
           ELSE TitleFromPattern(html, p + 1)

extractTitleFromHtml(html) == TitleFromPattern(html, 1)

\* ------------------------------------------------------------------------
\* Archive (JSZip): a file table, i.e. a sequence of entries in the order of
\* Object.keys(zipFile.files).  An entry name is a token sequence such as
\* <<"OEBPS", "/", "a", ".xhtml">>.  The string content of an entry is its
\* three parts: the full-path values of its <rootfile> elements, the href
\* values of its <item> elements (both in document order), and its text.
\* ------------------------------------------------------------------------
Entry(name, rootfile, items, text) ==
  [name |-> name, rootfile |-> rootfile, items |-> items, text |-> text]

\* the empty string '' (falsy in the code's "if (content)" tests)
IsEmptyString(e) == e.rootfile = <<>> /\ e.items = <<>> /\ e.text = <<>>

\* zipFile.file(path)?.async('string'): the entry wrapped in a one-element
\* sequence, <<>> for undefined
file(zip, path) ==
  LET S == {k \in 1..Len(zip) : zip[k].name = path}
  IN  IF S = {} THEN <<>> ELSE <<zip[MinOf(S)]>>

\* "if (x)" on the result of file(): defined and not ''
Truthy(read) == read # <<>> /\ ~IsEmptyString(read[1])

\* name.endsWith(suffix) for a one-token suffix
EndsWith(name, suffix) == Len(name) > 0 /\ name[Len(name)] = suffix

\* name.lastIndexOf(tok) + 1 (0 when tok does not occur)
LastIndexOf(name, tok) ==
  LET S == {k \in 1..Len(name) : name[k] = tok}
  IN  IF S = {} THEN 0 ELSE MaxOf(S)

\* /\.(html|xhtml)$/ and /\.(?:html|xhtml)"/ : the content-file suffixes
IsHtmlName(name) == EndsWith(name, ".html") \/ EndsWith(name, ".xhtml")

IsCssName(name) == EndsWith(name, ".css")

\* fileName.includes('META-INF')
IncludesMetaInf(name) == \E k \in 1..Len(name) : name[k] = "META-INF"

ContainerPath == <<"META-INF", "/", "container", ".xml">>

\* extractHtmlFilesFromOpf, lines 145-146: the directory of the first entry
\* of the file table whose name ends in ".opf"
basePath(zip) ==
  LET S == {k \in 1..Len(zip) : EndsWith(zip[k].name, ".opf")}
  IN  IF S = {} THEN <<>>
      ELSE LET opfPath == zip[MinOf(S)].name
           IN  SubSeq(opfPath, 1, LastIndexOf(opfPath, "/"))

\* extractCssStyles: the style element appended to document.head for
\* cssPath, as a sequence of zero or one style texts
extractCssStyles(zip, cssPath) ==
  LET cssContent == file(zip, cssPath)
  IN  IF Truthy(cssContent) THEN <<cssContent[1].text>> ELSE <<>>

RECURSIVE StylesOfPaths(_, _)
StylesOfPaths(zip, paths) ==
  IF paths = <<>> THEN <<>>
  ELSE extractCssStyles(zip, Head(paths)) \o StylesOfPaths(zip, Tail(paths))

\* extractHtmlFilesFromOpf: the content paths in declaration order, and the
\* style elements it injects
extractHtmlFilesFromOpf(zip, opfContent) ==
  LET base == basePath(zip)
      htmlItems == SelectSeq(opfContent.items, IsHtmlName)
      cssItems == SelectSeq(opfContent.items, IsCssName)
  IN  [htmlFiles |-> [k \in 1..Len(htmlItems) |-> base \o htmlItems[k]],
       styles |-> StylesOfPaths(zip, [k \in 1..Len(cssItems) |-> base \o cssItems[k]])]

\* a scan that knows only the .html suffix
IsScannedContentHtmlOnly(fileName) ==
  EndsWith(fileName, ".html") /\ ~IncludesMetaInf(fileName)

\* the test of extractHtmlFilesDirectly on one entry name
IsScannedContent(fileName) == IsHtmlName(fileName) /\ ~IncludesMetaInf(fileName)

IsScannedStyle(fileName) == IsCssName(fileName) /\ ~IncludesMetaInf(fileName)

\* extractHtmlFilesDirectly: the loop over Object.keys(zipFile.files)
extractHtmlFilesDirectly(zip) ==
  LET names == [k \in 1..Len(zip) |-> zip[k].name]
  IN  [htmlFiles |-> SelectSeq(names, IsScannedContent),
       styles |-> StylesOfPaths(zip, SelectSeq(names, IsScannedStyle))]

\* `chapter-${chapterIndex}`: the id is modelled by its number
ChapterId(chapterIndex) == chapterIndex

\* `Chapter ${chapterIndex}`
DefaultTitle(chapterIndex) == <<"Chapter", " ", ToString(chapterIndex)>>

\* extractTitleFromHtml(htmlContent) || `Chapter ${chapterIndex}`: null and
\* the empty string are falsy
TitleOrDefault(found, chapterIndex) ==
  IF found # <<>> /\ found[1] # <<>> THEN found[1] ELSE DefaultTitle(chapterIndex)

\* a chapter builder that keeps every readable file, whatever its content
createChapterFromHtmlUnchecked(source, htmlPath, chapterIndex) ==
  IF ~source.valid THEN <<>>
  ELSE LET htmlContent == file(source.files, htmlPath)
       IN  IF ~Truthy(htmlContent) THEN <<>>
           ELSE <<[id |-> ChapterId(chapterIndex),
                   title |-> TitleOrDefault(extractTitleFromHtml(htmlContent[1].text),
                                            chapterIndex),
                   content |-> extractContentFromHtml(htmlContent[1].text)]>>

\* createChapterFromHtml(htmlPath, chapterIndex) reading the archive source:
\* the chapter wrapped in a one-element sequence, <<>> for null
createChapterFromHtml(source, htmlPath, chapterIndex) ==
  IF ~source.valid THEN <<>>
  ELSE LET htmlContent == file(source.files, htmlPath)
       IN  IF ~Truthy(htmlContent) THEN <<>>
           ELSE LET found == extractTitleFromHtml(htmlContent[1].text)
                    content == extractContentFromHtml(htmlContent[1].text)
                IN  IF Len(Trim(content)) > 0
                    THEN <<[id |-> ChapterId(chapterIndex),
                            title |-> TitleOrDefault(found, chapterIndex),
                            content |-> content]>>
                    ELSE <<>>

\* the loops "for (let i = 0; i < htmlFiles.length; i++)" of
\* extractEpubContent, from (1-based) position i
RECURSIVE ChaptersFrom(_, _, _)
ChaptersFrom(source, htmlFiles, i) ==
  IF i > Len(htmlFiles) THEN <<>>
  ELSE createChapterFromHtml(source, htmlFiles[i], i)
         \o ChaptersFrom(source, htmlFiles, i + 1)

\* the manifest route of extractEpubContent (lines 86-116)
ManifestRoute(buffer, source) ==
  LET zip == buffer.files
      containerXml == file(zip, ContainerPath)
      none == [chapters |-> <<>>, styles |-> <<>>, htmlFiles |-> <<>>]
  IN  IF ~Truthy(containerXml) \/ containerXml[1].rootfile = <<>> THEN none
      ELSE LET opfContent == file(zip, containerXml[1].rootfile[1])
           IN  IF ~Truthy(opfContent) THEN none
               ELSE LET found == extractHtmlFilesFromOpf(zip, opfContent[1])
                    IN  [chapters |-> ChaptersFrom(source, found.htmlFiles, 1),
                         styles |-> found.styles,
                         htmlFiles |-> found.htmlFiles]

\* extractEpubContent(buffer); createChapterFromHtml re-opens the archive
\* source (the fileContent of the closure).  Yields the returned chapters,
\* the style elements appended to document.head, and which route produced
\* the chapters.
extractEpubContent(buffer, source) ==
  IF ~buffer.valid
  THEN [chapters |-> <<>>, styles |-> <<>>, route |-> "threw"]
  ELSE LET viaOpf == ManifestRoute(buffer, source)
       IN  IF Len(viaOpf.chapters) = 0
           THEN LET direct == extractHtmlFilesDirectly(buffer.files)
                IN  [chapters |-> ChaptersFrom(source, direct.htmlFiles, 1),
                     styles |-> viaOpf.styles \o direct.styles,
                     route |-> "direct"]
           ELSE [chapters |-> viaOpf.chapters, styles |-> viaOpf.styles,
                 route |-> "opf"]

\* ------------------------------------------------------------------------
\* PageTextReconstructor: convertTextContentToHtml.  A text item is
\* [str, x, y] with x = transform[4] and y = transform[5]; h is page.view[3].
\* ------------------------------------------------------------------------
Abs(n) == IF n < 0 THEN -n ELSE n

\* a comparator that orders distant items by ascending top-down y
compareItemsAscending(a, b, h) ==
  LET yA == h - a.y
      yB == h - b.y
  IN  IF Abs(yA - yB) < 10 THEN a.x - b.x ELSE yA - yB

\* the comparator passed to items.sort (lines 122-133)
compareItems(a, b, h) ==
  LET yA == h - a.y
      yB == h - b.y
  IN  IF Abs(yA - yB) < 10 THEN a.x - b.x ELSE yB - yA

\* Array.prototype.sort is the engine's: V8 (the engine of Electron) sorts
\* an array of fewer than 32 elements by finding the initial run and then
\* inserting the remaining elements by binary search.  The comparator above
\* is not a consistent order, so the result depends on this procedure.

\* length of the initial run of arr: ascending, or strictly descending when
\* desc, counted from element idx on
RECURSIVE RunLength(_, _, _, _)
RunLength(arr, h, desc, idx) ==
  IF idx > Len(arr) THEN idx - 1
  ELSE LET order == compareItems(arr[idx], arr[idx - 1], h)
       IN  IF (desc /\ order >= 0) \/ (~desc /\ order < 0) THEN idx - 1
           ELSE RunLength(arr, h, desc, idx + 1)

Reverse(arr) == [k \in 1..Len(arr) |-> arr[Len(arr) + 1 - k]]

\* binary search for the insertion point of pivot in arr[left..right-1]
RECURSIVE InsertionPoint(_, _, _, _, _)
InsertionPoint(arr, h, pivot, left, right) ==
  IF left >= right THEN left
  ELSE LET mid == left + ((right - left) \div 2)
       IN  IF compareItems(pivot, arr[mid], h) < 0
           THEN InsertionPoint(arr, h, pivot, left, mid)
           ELSE InsertionPoint(arr, h, pivot, mid + 1, right)

\* binary insertion sort of arr, whose first start - 1 elements are sorted
RECURSIVE BinaryInsertionSort(_, _, _)
BinaryInsertionSort(arr, h, start) ==
  IF start > Len(arr) THEN arr
  ELSE LET pivot == arr[start]
           at == InsertionPoint(arr, h, pivot, 1, start)
           moved == SubSeq(arr, 1, at - 1) \o <<pivot>> \o SubSeq(arr, at, start - 1)
                      \o SubSeq(arr, start + 1, Len(arr))
       IN  BinaryInsertionSort(moved, h, start + 1)

\* items.sort(compare)
sortedItems(items, h) ==
  IF Len(items) < 2 THEN items
  ELSE LET desc == compareItems(items[2], items[1], h) < 0
           run == RunLength(items, h, desc, 3)
           made == IF desc
                   THEN Reverse(SubSeq(items, 1, run)) \o SubSeq(items, run + 1, Len(items))
                   ELSE items
       IN  BinaryInsertionSort(made, h, run + 1)

\* a replacement of the opening angle bracket only
EscapeCharLtOnly(c) == IF c = "<" THEN <<"&", "lt;">> ELSE <<c>>

\* what the two replacements make of one character of the text
EscapeChar(c) ==
  CASE c = "<" -> <<"&", "lt;">>
    [] c = ">" -> <<"&", "gt;">>
    [] OTHER -> <<c>>

\* item.str.replace(/</g, '&lt;').replace(/>/g, '&gt;')
RECURSIVE EscapeText(_)
EscapeText(str) ==
  IF str = <<>> THEN <<>> ELSE EscapeChar(Head(str)) \o EscapeText(Tail(str))

SpanOpen == "<span class=\"pdf-text\">"

SpanClose == "</span>"

\* the markup of currentLine: one span per item
RECURSIVE LineMarkup(_)
LineMarkup(line) ==
  IF line = <<>> THEN <<>>
  ELSE <<SpanOpen>> \o EscapeText(Head(line).str) \o <<SpanClose>>
         \o LineMarkup(Tail(line))

\* "if (currentLine.trim())"
LineIsEmitted(line) == Trim(LineMarkup(line)) # <<>>

\* the loop over sortedItems (lines 135-153) from item i on; lines is the
\* sequence of lines appended to html so far, each line the sequence of its
\* items; yields lines, currentY and currentLine after the loop
RECURSIVE GroupLines(_, _, _, _, _, _)
GroupLines(sorted, h, i, lines, currentY, currentLine) ==
  IF i > Len(sorted)
  THEN [lines |-> lines, currentY |-> currentY, currentLine |-> currentLine]
  ELSE LET item == sorted[i]
           y == h - item.y
           newLine == Abs(y - currentY) > 10
       IN  GroupLines(sorted, h, i + 1,
             IF newLine /\ LineIsEmitted(currentLine)
             THEN Append(lines, currentLine) ELSE lines,
             IF newLine THEN y ELSE currentY,
             (IF newLine THEN <<>> ELSE currentLine) \o <<item>>)

\* a conversion without the "Add the last line" step of lines 153-156
convertTextContentToHtmlUnflushed(items, h) ==
  GroupLines(sortedItems(items, h), h, 1, <<>>, -1, <<>>).lines

\* convertTextContentToHtml(textContent, page): the lines of the page in
\* the order their <div class="pdf-line"> blocks are appended to html
convertTextContentToHtml(items, h) ==
  LET grouped == GroupLines(sortedItems(items, h), h, 1, <<>>, -1, <<>>)
  IN  IF LineIsEmitted(grouped.currentLine)
      THEN Append(grouped.lines, grouped.currentLine)
      ELSE grouped.lines

\* the returned string
RECURSIVE PageMarkupFrom(_)
PageMarkupFrom(lines) ==
  IF lines = <<>> THEN <<>>
  ELSE <<"<div class=\"pdf-line\">">> \o LineMarkup(Head(lines)) \o <<"</div>">>
         \o PageMarkupFrom(Tail(lines))

PageMarkup(lines) == <<"<div class=\"pdf-page\">">> \o PageMarkupFrom(lines) \o <<"</div>">>

\* ------------------------------------------------------------------------
\* State
\* ------------------------------------------------------------------------
VARIABLES
  html,        \* sanitizer run: the raw content of one content file
  sanitized,   \* sanitizer run: <<extractContentFromHtml(html)>> once computed
  title,       \* sanitizer run: <<extractTitleFromHtml(html)>> once computed
  fileContent, \* EpubReader: the fileContent prop (an archive)
  chapters,    \* EpubReader: useState chapters
  currentChapter, \* EpubReader: useState currentChapter (0-based)
  isLoading,   \* EpubReader: useState isLoading
  error,       \* EpubReader: useState error (<<>> for null)
  pending,     \* EpubReader: the processEpubContent calls awaiting extraction
  runs,        \* EpubReader: number of times the load effect has run
  documentHead, \* the <style> elements appended to document.head
  completed,   \* EpubReader: one record per finished processEpubContent call
  lastPageChange, \* EpubReader: argument of the last onPageChange call, 0 if none
  textItems,   \* page conversion: textContent.items of the page
  viewHeight,  \* page conversion: page.view[3]
  pageLines,   \* page conversion: <<convertTextContentToHtml(...)>> once computed
  pageContent, \* page conversion: the markup handed to setPageContent
  pdfCurrentPage, \* PdfReader: useState currentPage
  pdfTotalPages,  \* PdfReader: useState totalPages (numPages of pdfDoc)
  pdfIsLoading,   \* PdfReader: useState isLoading
  renders,        \* PdfReader: the renderPage calls awaiting getPage / getTextContent
  issued,         \* PdfReader: number of renderPage calls made so far
  shownPage,      \* PdfReader: the page whose markup pageContent holds, 0 for ''
  renderErrors,   \* PdfReader: number of onError('Failed to render page') calls
  fileType,          \* BookReader prop: "epub" or "pdf"
  bookPhase,         \* BookReader: "constructed", "mounted", "closed" or "unloaded"
  appError,          \* App: error, "" for null
  reads,             \* BookReader: readFileContent calls not yet settled
  bookIsLoading,     \* BookReader: isLoading
  bookFileContent,   \* BookReader: fileContent, <<>> for null, else <<document>>
  currentPage,       \* BookReader: currentPage
  totalPages,        \* BookReader: totalPages
  autoSaveEnabled,   \* BookReader: autoSaveEnabled
  showBookmarkModal, \* BookReader: showBookmarkModal
  readerPage,        \* embedded reader: PdfReader.currentPage, EpubReader.currentChapter + 1
  readerTotal,       \* embedded reader: PdfReader.totalPages, EpubReader chapters.length
  readerError,       \* embedded reader: error is set
  loads,             \* embedded readers: loadPdf / processEpubContent calls in flight
  rendering,         \* PdfReader: a renderPage call is in flight
  emits,             \* progress records passed to onProgressUpdate by the last step
  writes,            \* progress records written to the store by the last step
  stored,            \* the progress of the open book in the bookshelf store
  viewMode,          \* App: viewMode
  currentBook,       \* App: filePath of currentBook, "" for null
  storage,           \* localStorage item bookshelf_books: <<>> for none, else <<books>>
  books,             \* BookShelf: books
  selectedBook,      \* BookShelf: selectedBook, <<>> for null, else <<book>>
  showBookmarks,     \* BookShelf: showBookmarks
  now,               \* the value Date.now() returns
  windowOpen         \* the window has not been unloaded

sanVars == <<html, sanitized, title>>

epubVars == <<fileContent, chapters, currentChapter, isLoading, error, pending,
              runs, documentHead, completed, lastPageChange>>

navVars == <<pdfCurrentPage, pdfTotalPages, pdfIsLoading, renders, issued,
             shownPage, renderErrors>>

pdfVars == <<textItems, viewHeight, pageLines, pageContent, navVars>>

bookVars == <<fileType, bookPhase, appError, reads, bookIsLoading, bookFileContent,
              currentPage, totalPages, autoSaveEnabled, showBookmarkModal,
              readerPage, readerTotal, readerError, loads, rendering,
              emits, writes, stored>>

shelfVars == <<viewMode, currentBook, storage, books, selectedBook, showBookmarks,
               now, windowOpen>>

vars == <<sanVars, epubVars, pdfVars, bookVars, shelfVars>>

\* ------------------------------------------------------------------------
\* Sanitizer runs: one raw content string, sanitized and searched for a title
\* ------------------------------------------------------------------------
SanAlphabet == {"<", ">", "/", "&", "lt;", "amp;", "meta", "x", " "}

RECURSIVE SeqsUpTo(_, _)
SeqsUpTo(A, n) ==
  IF n = 0 THEN {<<>>}
  ELSE LET shorter == SeqsUpTo(A, n - 1)
       IN  shorter \cup {Append(s, a) : s \in {t \in shorter : Len(t) = n - 1}, a \in A}

\* <script>evil()</script><p>Hello &amp; World</p>
P5Input ==
  <<"<", "script", ">", "evil()", "<", "/", "script", ">",
    "<", "p", ">", "Hello", " ", "&", "amp;", " ", "World", "<", "/", "p", ">">>

\* <p>Hello & World</p>
P5Output == <<"<", "p", ">", "Hello", " ", "&", " ", "World", "<", "/", "p", ">">>

NamedHtml ==
  { P5Input,
    \* <html><head><title>T</title><style>s</style><link x><meta x></head><body><h1>H</h1><p>x</p></body></html>
    <<"<", "html", ">", "<", "head", ">", "<", "title", ">", "T", "<", "/", "title", ">",
      "<", "style", ">", "s", "<", "/", "style", ">", "<", "link", " ", "x", ">",
      "<", "meta", " ", "x", ">", "<", "/", "head", ">",
      "<", "body", ">", "<", "h1", ">", "H", "<", "/", "h1", ">",
      "<", "p", ">", "x", "<", "/", "p", ">", "<", "/", "body", ">", "<", "/", "html", ">">>,
    \* &lt;script&gt;evil()&lt;/script&gt;
    <<"&", "lt;", "script", "&", "gt;", "evil()", "&", "lt;", "/", "script", "&", "gt;">> }

\* documents for the title search: each of the four elements is absent or
\* holds a text, only a tag, or only a blank; in document order or reversed
Element(n, body) == <<"<", n, ">">> \o body \o <<"<", "/", n, ">">>

TitleBodies(n) == {<<"T", n>>, <<"<", "b", ">", "<", "/", "b", ">">>, <<" ">>}

TitleParts(n) == {<<>>} \cup {Element(n, body) : body \in TitleBodies(n)}

TitleDocs ==
  UNION {{t \o a \o b \o c \o <<"<", "p", ">", "x", "<", "/", "p", ">">>, c \o b \o a \o t} :
           t \in TitleParts("title"), a \in TitleParts("h1"),
           b \in TitleParts("h2"), c \in TitleParts("h3")}

SanInputs == SeqsUpTo(SanAlphabet, MaxHtmlLen) \cup NamedHtml \cup TitleDocs

SanIdle == html = <<>> /\ sanitized = <<>> /\ title = <<>>

\* App.addBookToBookshelf, lines 98-102: the progress of a book just imported
InitialProgress == [currentPage |-> 1, totalPages |-> 1, percentage |-> 0]

BookIdle ==
  /\ fileType = "epub"
  /\ bookPhase = "closed"
  /\ appError = ""
  /\ reads = 0
  /\ bookIsLoading = TRUE
  /\ bookFileContent = <<>>
  /\ currentPage = 1
  /\ totalPages = 1
  /\ autoSaveEnabled = TRUE
  /\ showBookmarkModal = FALSE
  /\ readerPage = 1
  /\ readerTotal = 0
  /\ readerError = FALSE
  /\ loads = {}
  /\ rendering = FALSE
  /\ emits = <<>>
  /\ writes = <<>>
  /\ stored = InitialProgress

ShelfIdle ==
  /\ viewMode = "bookshelf"
  /\ currentBook = ""
  /\ storage = <<>>
  /\ books = <<>>
  /\ selectedBook = <<>>
  /\ showBookmarks = FALSE
  /\ now = 0
  /\ windowOpen = FALSE

NavIdle ==
  /\ pdfCurrentPage = 1
  /\ pdfTotalPages = 0
  /\ pdfIsLoading = TRUE
  /\ renders = {}
  /\ issued = 0
  /\ shownPage = 0
  /\ renderErrors = 0

ConversionIdle ==
  textItems = <<>> /\ viewHeight = 0 /\ pageLines = <<>> /\ pageContent = <<>>

PdfIdle == ConversionIdle /\ NavIdle

NoArchive == [valid |-> FALSE, files |-> <<>>]

EpubIdle ==
  /\ fileContent = NoArchive
  /\ chapters = <<>>
  /\ currentChapter = 0
  /\ isLoading = TRUE
  /\ error = <<>>
  /\ pending = {}
  /\ runs = 0
  /\ documentHead = <<>>
  /\ completed = <<>>
  /\ lastPageChange = 0

InitSan ==
  /\ html \in SanInputs
  /\ sanitized = <<>>
  /\ title = <<>>
  /\ EpubIdle
  /\ PdfIdle
  /\ BookIdle
  /\ ShelfIdle

\* createChapterFromHtml, line "const content = extractContentFromHtml(htmlContent)"
SanitizeContent ==
  /\ sanitized = <<>>
  /\ sanitized' = <<extractContentFromHtml(html)>>
  /\ UNCHANGED <<html, title, epubVars, pdfVars, bookVars, shelfVars>>

\* createChapterFromHtml, line "const title = extractTitleFromHtml(htmlContent) || ..."
DeriveTitle ==
  /\ title = <<>>
  /\ title' = <<extractTitleFromHtml(html)>>
  /\ UNCHANGED <<html, sanitized, epubVars, pdfVars, bookVars, shelfVars>>

NextSan == SanitizeContent \/ DeriveTitle

SpecSan == InitSan /\ [][NextSan]_vars

\* the patterns cleanHtmlContent strips, as predicates on a string
HasBlock(s, n) == \E i \in 1..Len(s) : BlockEnd(s, n, i) # 0

HasTag(s, n) == \E i \in 1..Len(s) : TagEnd(s, n, i) # 0

Contains(s, pat) == IndexOfSeq(s, pat, 1) # 0

\* C4: for any raw content, the sanitized chapter content holds no script
\* block, no style block, no meta tag and no link tag, and the content of
\* <script>evil()</script><p>Hello &amp; World</p> contains
\* <p>Hello & World</p> and no <script> tag.
C4_SanitizedHasNoStrippedMarkup ==
  sanitized # <<>> =>
    /\ ~HasBlock(sanitized[1], "script")
    /\ ~HasBlock(sanitized[1], "style")
    /\ ~HasTag(sanitized[1], "meta")
    /\ ~HasTag(sanitized[1], "link")
    /\ (html = P5Input =>
          Contains(sanitized[1], P5Output) /\ ~HasTag(sanitized[1], "script"))

\* the text an entity name stands for
EntityText(name) ==
  CASE name = "nbsp;" -> " "
    [] name = "amp;" -> "&"
    [] name = "lt;" -> "<"
    [] name = "gt;" -> ">"
    [] name = "quot;" -> "\""
    [] name = "#39;" -> "'"

EntityNames == {"nbsp;", "amp;", "lt;", "gt;", "quot;", "#39;"}

\* s with every entity occurrence decoded once, left to right; the text a
\* decoding produces is not looked at again
RECURSIVE DecodedOnce(_)
DecodedOnce(s) ==
  IF s = <<>> THEN <<>>
  ELSE IF Len(s) >= 2 /\ s[1] = "&" /\ s[2] \in EntityNames
       THEN <<EntityText(s[2])>> \o DecodedOnce(SubSeq(s, 3, Len(s)))
       ELSE <<s[1]>> \o DecodedOnce(Tail(s))

\* html after the four stripping steps of cleanHtmlContent
Stripped(raw) ==
  RemoveTags(RemoveTags(RemoveBlocks(RemoveBlocks(raw, "script"), "style"), "meta"), "link")

\* C30: cleanHtmlContent decodes each entity occurrence of its input exactly
\* once: the text a decoding produces is never decoded again, so &amp;lt;
\* becomes the text &lt; and not <.
C30_EntitiesDecodedOnce ==
  sanitized # <<>> => cleanHtmlContent(html) = Trim(DecodedOnce(Stripped(html)))

\* the first of the four matches that is non-empty once sanitized, wrapped in
\* a one-element sequence, <<>> when there is none
RECURSIVE FirstSanitizedTitle(_, _)
FirstSanitizedTitle(raw, p) ==
  IF p > Len(titlePatterns) THEN <<>>
  ELSE LET match == TitleMatchFrom(raw, titlePatterns[p], 1)
           clean == IF match = <<>> THEN <<>> ELSE cleanTextContent(match[1])
       IN  IF clean # <<>> THEN <<clean>> ELSE FirstSanitizedTitle(raw, p + 1)

\* C15: the chapter title is the first of the title, h1, h2, h3 matches that
\* is non-empty after title-sanitization; "Chapter {ordinal}" only when none
\* of the four is.
C15_TitleFirstNonEmptySanitized ==
  title # <<>> =>
    \A ordinal \in 1..2 :
      TitleOrDefault(title[1], ordinal) =
        (IF FirstSanitizedTitle(html, 1) # <<>>
         THEN FirstSanitizedTitle(html, 1)[1] ELSE DefaultTitle(ordinal))

\* ------------------------------------------------------------------------
\* The archives the EPUB runs draw from: three content files a, b, c under
\* OEBPS/, one stylesheet, a manifest OEBPS/content.opf declaring the three
\* files in some order, a container descriptor, and optionally a second
\* entry ending in ".opf" in another directory.
\* ------------------------------------------------------------------------
Stems == <<"a", "b", "c">>

Suffix == <<".xhtml", ".xhtml", ".html">>

Href(k) == <<Stems[k], Suffix[k]>>

OpfPath == <<"OEBPS", "/", "content", ".opf">>

OpfDir == <<"OEBPS", "/">>

CssHref == <<"style", ".css">>

CssText == <<"p", "{", "}">>

\* <h1>Title k</h1><p>k</p>
Titled(k) ==
  <<"<", "h1", ">", "Title", Stems[k], "<", "/", "h1", ">",
    "<", "p", ">", Stems[k], "<", "/", "p", ">">>

\* <p>k</p>
Untitled(k) == <<"<", "p", ">", Stems[k], "<", "/", "p", ">">>

\* <meta x> followed by a blank: nothing is left after sanitizing
Blank == <<"<", "meta", "x", ">", " ">>

HtmlText(kind, k) ==
  CASE kind = "titled" -> Titled(k)
    [] kind = "untitled" -> Untitled(k)
    [] OTHER -> Blank

Kinds ==
  {kd \in [1..3 -> {"titled", "untitled", "blank", "missing"}] :
     /\ kd[1] \in {"titled", "blank", "missing"}
     /\ kd[2] \in {"titled", "blank"}
     /\ kd[3] \in {"untitled", "blank"}}

Perms3 == {pm \in [1..3 -> 1..3] : \A i, j \in 1..3 : i # j => pm[i] # pm[j]}

Identity3 == [k \in 1..3 |-> k]

ContainerKinds == {"ok", "absent", "malformed", "dangling"}

DecoyKinds == {"none", "first", "last"}

DecoyEntry == Entry(<<"other", "/", "decoy", ".opf">>, <<>>, <<>>, <<"decoy">>)

ContainerEntry(cont) ==
  Entry(ContainerPath,
        CASE cont = "ok" -> <<OpfPath>>
          [] cont = "dangling" -> << <<"OEBPS", "/", "gone", ".opf">> >>
          [] OTHER -> <<>>,
        <<>>, <<"container">>)

OpfEntry(mperm) ==
  Entry(OpfPath, <<>>,
        <<Href(mperm[1]), CssHref, Href(mperm[2]), Href(mperm[3])>>,
        <<"package">>)

HtmlEntry(kd, k) == Entry(OpfDir \o Href(k), <<>>, <<>>, HtmlText(kd[k], k))

MakeArchive(kd, tperm, decoy, cont, mperm) ==
  LET inTable == SelectSeq([i \in 1..3 |-> tperm[i]], LAMBDA k : kd[k] # "missing")
  IN  [valid |-> TRUE,
       files |->
         (IF decoy = "first" THEN <<DecoyEntry>> ELSE <<>>)
         \o (IF cont = "absent" THEN <<>> ELSE <<ContainerEntry(cont)>>)
         \o <<OpfEntry(mperm)>>
         \o (IF decoy = "last" THEN <<DecoyEntry>> ELSE <<>>)
         \o [i \in 1..Len(inTable) |-> HtmlEntry(kd, inTable[i])]
         \o <<Entry(OpfDir \o CssHref, <<>>, <<>>, CssText)>>]

\* bytes that JSZip.loadAsync rejects
CorruptArchive == [valid |-> FALSE, files |-> <<Entry(<<"junk">>, <<>>, <<>>, <<"junk">>)>>]

\* another book: no container descriptor, the same entry names as a and c
\* with other content, and a content file under META-INF
OtherBook ==
  [valid |-> TRUE,
   files |-> <<Entry(OpfDir \o Href(3), <<>>, <<>>, <<"<", "p", ">", "z", "<", "/", "p", ">">>),
               Entry(<<"META-INF", "/", "note", ".html">>, <<>>, <<>>, Untitled(2)),
               Entry(OpfDir \o Href(1), <<>>, <<>>,
                     <<"<", "h2", ">", "Z", "<", "/", "h2", ">", "y">>)>>]

Archives ==
  {MakeArchive(kd, tperm, decoy, cont, mperm) :
     kd \in Kinds, tperm \in Perms3, decoy \in DecoyKinds,
     cont \in {"ok"}, mperm \in Perms3}
  \cup {MakeArchive(kd, tperm, decoy, cont, Identity3) :
     kd \in Kinds, tperm \in Perms3, decoy \in DecoyKinds,
     cont \in ContainerKinds \ {"ok"}}
  \cup {CorruptArchive, OtherBook}

OtherArchives == {OtherBook, CorruptArchive}

Rotated3 == [k \in 1..3 |-> (k % 3) + 1]

Reversed3 == [k \in 1..3 |-> 4 - k]

\* the archives of the runs in which the props of the reader change
ReloadArchives ==
  {MakeArchive(kd, Reversed3, decoy, "ok", Rotated3) :
     kd \in {kd \in Kinds : kd[2] = "titled" /\ kd[3] = "untitled" /\ kd[1] # "missing"},
     decoy \in {"none", "first"}}
  \cup {MakeArchive([k \in 1..3 |-> IF k = 3 THEN "untitled" ELSE "titled"],
                    Identity3, "none", "absent", Identity3),
        CorruptArchive, OtherBook}

\* ------------------------------------------------------------------------
\* EpubReader: the load effect, the completion of an extraction, navigation
\* ------------------------------------------------------------------------
InitEpub(inputs) ==
  /\ fileContent \in inputs
  /\ chapters = <<>>
  /\ currentChapter = 0
  /\ isLoading = TRUE
  /\ error = <<>>
  /\ pending = {}
  /\ runs = 0
  /\ documentHead = <<>>
  /\ completed = <<>>
  /\ lastPageChange = 0
  /\ SanIdle
  /\ PdfIdle
  /\ BookIdle
  /\ ShelfIdle

\* createChapterFromHtml reading the latest fileContent prop instead of the
\* one its closure captured
ChapterSourceLatest(r) == fileContent

\* the archive createChapterFromHtml re-opens: the fileContent captured by
\* the closure of the render whose effect started the call
ChapterSource(r) == r.closure

\* the exception extractEpubContent lets escape to processEpubContent, as a
\* sequence of zero or one messages: its try/catch (lines 73-135) swallows
\* every error, and setChapters / onTotalPagesChange do not throw
Escaping(r) == <<>>

\* the body of the load effect for the render whose fileContent is b:
\* processEpubContent() up to its first await
StartProcessing(b) ==
  /\ fileContent' = b
  /\ isLoading' = TRUE
  /\ error' = <<>>
  /\ pending' = pending \cup {[run |-> runs + 1, buffer |-> b, closure |-> b]}
  /\ runs' = runs + 1
  /\ UNCHANGED <<chapters, currentChapter, documentHead, completed, lastPageChange, sanVars, pdfVars, bookVars, shelfVars>>

\* useEffect(..., [fileContent, onError]) after the component mounted
Mount ==
  /\ runs = 0
  /\ StartProcessing(fileContent)

\* useEffect(..., [fileContent, onError]) after a render in which onError
\* changed (b = fileContent) or fileContent changed (b another archive)
Rerun(b) ==
  /\ runs >= 1
  /\ runs <= MaxReruns
  /\ StartProcessing(b)

\* processEpubContent after "await extractEpubContent(fileContent)"
ExtractionDone(r) ==
  /\ r \in pending
  /\ \E res \in {extractEpubContent(r.buffer, ChapterSource(r))},
        thrown \in {Escaping(r)} :
         /\ chapters' = IF thrown = <<>> THEN res.chapters ELSE chapters
         /\ error' = IF thrown = <<>> THEN error ELSE thrown
         /\ documentHead' = documentHead \o res.styles
         /\ completed' = Append(completed,
              [run |-> r.run, buffer |-> r.buffer, chapters |-> res.chapters,
               route |-> res.route,
               onTotalPagesChange |-> IF thrown = <<>> THEN <<Len(res.chapters)>> ELSE <<>>,
               onError |-> thrown])
  /\ isLoading' = FALSE
  /\ pending' = pending \ {r}
  /\ UNCHANGED <<fileContent, currentChapter, runs, lastPageChange, sanVars, pdfVars, bookVars, shelfVars>>

\* the navigation bar is rendered only past the error, loading and
\* "No Content Found" returns
NavigationRendered == error = <<>> /\ ~isLoading /\ Len(chapters) > 0

nextChapter ==
  /\ NavigationRendered
  /\ currentChapter < Len(chapters) - 1
  /\ currentChapter' = currentChapter + 1
  /\ lastPageChange' = currentChapter + 1 + 1
  /\ UNCHANGED <<fileContent, chapters, isLoading, error, pending, runs,
                 documentHead, completed, sanVars, pdfVars, bookVars, shelfVars>>

prevChapter ==
  /\ NavigationRendered
  /\ currentChapter > 0
  /\ currentChapter' = currentChapter - 1
  /\ lastPageChange' = currentChapter - 1 + 1
  /\ UNCHANGED <<fileContent, chapters, isLoading, error, pending, runs,
                 documentHead, completed, sanVars, pdfVars, bookVars, shelfVars>>

\* the archives this reader has been given so far
Opened ==
  {fileContent} \cup {r.buffer : r \in pending}
                \cup {completed[i].buffer : i \in 1..Len(completed)}

\* one mounted reader whose props never change, over every archive
NextExtract ==
  \/ Mount
  \/ \E r \in pending : ExtractionDone(r)
  \/ nextChapter
  \/ prevChapter

SpecExtract == InitEpub(Archives) /\ [][NextExtract]_vars

\* a reader whose fileContent and onError props change while it is mounted
NextEpub ==
  \/ Mount
  \/ \E b \in Opened \cup OtherArchives : Rerun(b)
  \/ \E r \in pending : ExtractionDone(r)
  \/ nextChapter
  \/ prevChapter

SpecEpub == InitEpub(ReloadArchives) /\ [][NextEpub]_vars

\* ------------------------------------------------------------------------
\* Claims about the EPUB extraction
\* ------------------------------------------------------------------------
Finished == {completed[i] : i \in 1..Len(completed)}

ContentsOf(chs) == [k \in 1..Len(chs) |-> chs[k].content]

\* the manifest the container descriptor of buffer names: its path and its
\* content, <<>> when the container or the manifest is missing or malformed
NamedManifest(buffer) ==
  LET containerXml == file(buffer.files, ContainerPath)
  IN  IF ~buffer.valid \/ ~Truthy(containerXml) \/ containerXml[1].rootfile = <<>>
      THEN <<>>
      ELSE LET opf == file(buffer.files, containerXml[1].rootfile[1])
           IN  IF Truthy(opf) THEN opf ELSE <<>>

\* the non-empty sanitized contents of the content items the manifest of
\* buffer declares, in declaration order, each item resolved against the
\* directory of the manifest
DeclaredContents(buffer) ==
  LET opf == NamedManifest(buffer)[1]
      dir == SubSeq(opf.name, 1, LastIndexOf(opf.name, "/"))
      hrefs == SelectSeq(opf.items, IsHtmlName)
      read == [k \in 1..Len(hrefs) |-> file(buffer.files, dir \o hrefs[k])]
      texts == SelectSeq(read, LAMBDA f : f # <<>>)
      clean == [k \in 1..Len(texts) |-> extractContentFromHtml(texts[k][1].text)]
  IN  SelectSeq(clean, LAMBDA t : Len(Trim(t)) > 0)

\* C1: when the container descriptor names a manifest declaring content
\* items, the returned chapters carry the contents of the declared items in
\* exactly the declaration order, whatever the order of the file table.
C1_ManifestOrderKept ==
  \A c \in Finished :
    (NamedManifest(c.buffer) # <<>> /\ DeclaredContents(c.buffer) # <<>>)
      => ContentsOf(c.chapters) = DeclaredContents(c.buffer)

\* the entries DirectScanFallback is specified to collect: content suffix,
\* outside the reserved metadata directory
ContentEntries(buffer) ==
  SelectSeq(buffer.files, LAMBDA e : IsHtmlName(e.name) /\ ~IncludesMetaInf(e.name))

StyleEntries(buffer) == SelectSeq(buffer.files, LAMBDA e : IsCssName(e.name))

\* the archives of P3: no container descriptor, exactly three content
\* entries, each with content that is non-empty once sanitized, and exactly
\* one stylesheet entry
IsP3Archive(buffer) ==
  /\ buffer.valid
  /\ file(buffer.files, ContainerPath) = <<>>
  /\ Len(ContentEntries(buffer)) = 3
  /\ Len(SelectSeq(buffer.files, LAMBDA e : IsHtmlName(e.name))) = 3
  /\ \A k \in 1..3 :
       Len(Trim(extractContentFromHtml(ContentEntries(buffer)[k].text))) > 0
  /\ Len(StyleEntries(buffer)) = 1

\* C2: an archive without container descriptor holding three content entries
\* (.html/.xhtml) with non-empty content and one stylesheet yields exactly
\* three chapters, and onError is not invoked.
C2_FallbackYieldsThreeChapters ==
  \A c \in Finished :
    IsP3Archive(c.buffer) =>
      /\ Len(c.chapters) = 3
      /\ c.onTotalPagesChange = <<3>>
      /\ c.onError = <<>>
      /\ error = <<>>

C2_Witness ==
  \E c \in Finished :
    /\ IsP3Archive(c.buffer)
    /\ c.route = "direct"
    /\ Len(documentHead) = 1

\* C3: when the manifest route and the direct scan both yield no usable
\* chapter, the extraction does not complete normally with an empty chapter
\* list: onError is invoked.
C3_NoReadableContentSurfaced ==
  \A c \in Finished : Len(c.chapters) = 0 => c.onError # <<>>

\* C9: the k-th chapter returned by an extraction has ordinal k (the N of
\* its id chapter-N), also when content files were unreadable or dropped.
C9_OrdinalsContiguous ==
  \A c \in Finished : \A k \in 1..Len(c.chapters) : c.chapters[k].id = k

PathsWalked(c) ==
  IF c.route = "opf"
  THEN ManifestRoute(c.buffer, c.buffer).htmlFiles
  ELSE extractHtmlFilesDirectly(c.buffer.files).htmlFiles

\* path is readable in buffer and its sanitized content is non-empty after
\* trimming
IsUsablePath(buffer, path) ==
  LET f == file(buffer.files, path)
  IN  /\ f # <<>>
      /\ Len(Trim(extractContentFromHtml(f[1].text))) > 0

UsablePositions(c) ==
  {k \in 1..Len(PathsWalked(c)) : IsUsablePath(c.buffer, PathsWalked(c)[k])}

\* C16: the chapters an extraction returns are exactly the paths of the
\* walked list that are readable with non-empty sanitized content, in list
\* order: one chapter per such path, carrying that path's content; unreadable
\* and empty files are skipped without dropping the others, and no returned
\* chapter has empty content.
C16_ChaptersAreUsableSubsequence ==
  \A c \in Finished :
    c.route # "threw" =>
      LET paths == PathsWalked(c)
          chs == c.chapters
      IN  /\ {chs[k].id : k \in 1..Len(chs)} = UsablePositions(c)
          /\ \A j, k \in 1..Len(chs) : j < k => chs[j].id < chs[k].id
          /\ \A k \in 1..Len(chs) :
                /\ chs[k].content =
                     extractContentFromHtml(file(c.buffer.files, paths[chs[k].id])[1].text)
                /\ Len(Trim(chs[k].content)) > 0

C16_Witness ==
  \E c \in Finished :
    LET paths == PathsWalked(c)
    IN  /\ c.route # "threw"
        /\ Len(c.chapters) >= 2
        /\ \E i, j \in 1..Len(paths) :
              /\ i < j
              /\ ~IsUsablePath(c.buffer, paths[i])
              /\ IsUsablePath(c.buffer, paths[j])

\* the content paths the manifest named by the container descriptor
\* declares, each href prefixed with the directory of that manifest
PathsRelativeToManifest(buffer) ==
  LET opf == NamedManifest(buffer)[1]
      dir == SubSeq(opf.name, 1, LastIndexOf(opf.name, "/"))
      hrefs == SelectSeq(opf.items, IsHtmlName)
  IN  [k \in 1..Len(hrefs) |-> dir \o hrefs[k]]

\* C17: every content path produced from the manifest is the declared href
\* prefixed with the directory of the manifest the container descriptor
\* names, also when the archive holds other .opf entries or the manifest's
\* name does not end in .opf.
C17_PathsRelativeToNamedManifest ==
  \A c \in Finished :
    NamedManifest(c.buffer) # <<>> =>
      ManifestRoute(c.buffer, c.buffer).htmlFiles = PathsRelativeToManifest(c.buffer)

\* C18: the direct scan of the file table runs when, and only when, the
\* container/manifest resolution yields zero content paths; an extraction
\* whose manifest declares a content path returns manifest-derived chapters
\* only.
C18_FallbackIffNoManifestPaths ==
  \A c \in Finished :
    c.route # "threw" =>
      (c.route = "direct" <=> ManifestRoute(c.buffer, c.buffer).htmlFiles = <<>>)

\* C22: no two extractions of the same document are in progress at the same
\* time: the extractions pending at any moment are of pairwise different
\* fileContent values.
C22_NoConcurrentSameDocument ==
  \A r, q \in pending : r # q => r.buffer # q.buffer

\* C23: an extraction shares no mutable state with another one: apart from
\* the chapters it returns, it leaves the state another extraction can reach,
\* the style elements injected into the active document, as it found it.
C23_ExtractionLeavesSharedStateAlone ==
  [][documentHead' = documentHead]_vars

\* C25: whenever chapters is non-empty, 0 <= currentChapter <=
\* chapters.length - 1, after any extraction completions (also of a changed
\* fileContent) and navigation.
C25_CurrentChapterInRange ==
  chapters # <<>> =>
    /\ currentChapter >= 0
    /\ currentChapter <= Len(chapters) - 1

\* ------------------------------------------------------------------------
\* Page conversions: the text items of one page, converted once
\* ------------------------------------------------------------------------
Letters == <<"A", "B", "C", "D", "E">>

ItemXs == {0, 20}

ItemYs == {100, 104, 110, 140}

PageHeights == {140, 150, 200}

TextItem(str, x, y) == [str |-> str, x |-> x, y |-> y]

\* every sequence of n items, the k-th with text Letters[k]
RECURSIVE ItemSeqs(_)
ItemSeqs(n) ==
  IF n = 0 THEN {<<>>}
  ELSE {Append(s, TextItem(<<Letters[n]>>, x, y)) : s \in ItemSeqs(n - 1), x \in ItemXs, y \in ItemYs}

\* the runs of P4, {y:100, x:0, "A"}, {y:104, x:20, "B"}, {y:140, x:0, "C"}
P4Runs == <<TextItem(<<"A">>, 0, 100), TextItem(<<"B">>, 20, 104), TextItem(<<"C">>, 0, 140)>>

P4Inputs == {[k \in 1..3 |-> P4Runs[pm[k]]] : pm \in Perms3}

\* run texts with angle brackets
AngleTexts == {<<"<">>, <<">">>, <<"a", "<", "b", ">">>, <<"<", "/", "span", ">">>}

AngleInputs ==
  {<<TextItem(t, 0, 100)>> : t \in AngleTexts}
  \cup {<<TextItem(t, 0, 100), TextItem(u, 20, y)>> : t \in AngleTexts, u \in AngleTexts, y \in {100, 140}}

\* runs whose text is empty or whitespace only, alone on their line or beside
\* a run with text
BlankTexts == {<<>>, <<" ">>, <<" ", " ">>}

BlankInputs ==
  {<<TextItem(t, 0, 100)>> : t \in BlankTexts}
  \cup {<<TextItem(t, 0, 100), TextItem(u, 20, y)>> :
         t \in BlankTexts, u \in BlankTexts \cup {<<"A">>}, y \in {100, 140}}
  \cup {<<TextItem(<<"A">>, 0, 100), TextItem(t, 20, y)>> :
         t \in BlankTexts, y \in {100, 140}}

PdfInputs ==
  UNION {ItemSeqs(n) : n \in 0..MaxItems} \cup P4Inputs \cup AngleInputs \cup BlankInputs

InitPdf ==
  /\ textItems \in PdfInputs
  /\ viewHeight \in PageHeights
  /\ pageLines = <<>>
  /\ pageContent = <<>>
  /\ NavIdle
  /\ SanIdle
  /\ EpubIdle
  /\ BookIdle
  /\ ShelfIdle

\* renderPage, lines 108-110: convert the text content and display it
ConvertPage ==
  /\ pageLines = <<>>
  /\ \E lines \in {convertTextContentToHtml(textItems, viewHeight)} :
       /\ pageLines' = <<lines>>
       /\ pageContent' = PageMarkup(lines)
  /\ UNCHANGED <<textItems, viewHeight, navVars, sanVars, epubVars, bookVars, shelfVars>>

NextPdf == ConvertPage

SpecPdf == InitPdf /\ [][NextPdf]_vars

\* the text of a line: the texts of its runs, concatenated
RECURSIVE LineText(_)
LineText(line) ==
  IF line = <<>> THEN <<>> ELSE Head(line).str \o LineText(Tail(line))

TopDownY(item) == viewHeight - item.y

\* C5: lines are emitted top to bottom: every run of a line emitted earlier
\* has a smaller top-down y (pageHeight - position.y) than every run of a
\* line emitted later.
C5_LinesTopToBottom ==
  pageLines # <<>> =>
    \A i, j \in 1..Len(pageLines[1]) :
      i < j =>
        \A a \in 1..Len(pageLines[1][i]), b \in 1..Len(pageLines[1][j]) :
          TopDownY(pageLines[1][i][a]) < TopDownY(pageLines[1][j][b])

C19_RunsLeftToRight ==
  pageLines # <<>> =>
    \A i \in 1..Len(pageLines[1]) :
      \A a, b \in 1..Len(pageLines[1][i]) :
        pageLines[1][i][a].x < pageLines[1][i][b].x => a < b

\* the lines a walk of the sorted runs gives when a run joins the current
\* line iff its top-down y differs from the line's anchor, the top-down y of
\* the line's first run, by less than 10
RECURSIVE AnchoredLines(_, _, _)
AnchoredLines(sorted, i, lines) ==
  IF i > Len(sorted) THEN lines
  ELSE LET y == TopDownY(sorted[i])
           joins == /\ lines # <<>>
                    /\ Abs(y - TopDownY(lines[Len(lines)][1])) < 10
       IN  AnchoredLines(sorted, i + 1,
             IF joins
             THEN [lines EXCEPT ![Len(lines)] = Append(@, sorted[i])]
             ELSE Append(lines, <<sorted[i]>>))

\* C20: the emitted lines are those of the anchored walk of the sorted runs:
\* a run joins the current line iff its y differs from the y of the line's
\* first run by less than 10, for the first line of the page and at a
\* difference of exactly 10 as well.
C20_GroupingByAnchor ==
  pageLines # <<>> =>
    pageLines[1] = AnchoredLines(sortedItems(textItems, viewHeight), 1, <<>>)

\* C21: one markup block is emitted per line, in closing order, and a line
\* whose text is empty after trimming (no runs, or whitespace runs only)
\* produces no block.
C21_NoBlockForBlankLine ==
  pageLines # <<>> =>
    /\ pageContent = PageMarkup(pageLines[1])
    /\ \A i \in 1..Len(pageLines[1]) : Trim(LineText(pageLines[1][i])) # <<>>

\* the runs of the emitted lines, in emission order
RECURSIVE Flatten(_)
Flatten(lines) == IF lines = <<>> THEN <<>> ELSE Head(lines) \o Flatten(Tail(lines))

Occurrences(seq, e) == Cardinality({k \in 1..Len(seq) : seq[k] = e})

\* C29: the conversion conserves runs: every input run appears in exactly
\* one emitted line, exactly once, none is lost at a line break or at the end
\* of the page and none is duplicated; the page markup holds one span per
\* input run.
C29_RunsConserved ==
  pageLines # <<>> =>
    LET emitted == Flatten(pageLines[1])
    IN  /\ Len(emitted) = Len(textItems)
        /\ \A k \in 1..Len(textItems) :
              Occurrences(emitted, textItems[k]) = Occurrences(textItems, textItems[k])
        /\ Occurrences(pageContent, SpanOpen) = Len(textItems)

C29_Witness ==
  /\ pageLines # <<>>
  /\ Len(textItems) = 3
  /\ Len(pageLines[1]) = 2
  /\ Len(pageLines[1][2]) = 2
  /\ Flatten(pageLines[1]) # textItems

CountTok(seq, tok) == Cardinality({k \in 1..Len(seq) : seq[k] = tok})

\* the texts of all runs of the page, concatenated
RECURSIVE AllText(_)
AllText(items) ==
  IF items = <<>> THEN <<>> ELSE Head(items).str \o AllText(Tail(items))

\* C14: the page markup holds no '<' or '>' that comes from run text: each
\* is replaced by &lt; or &gt;.
C14_RunTextEscaped ==
  pageLines # <<>> =>
    /\ \A k \in 1..Len(pageContent) : pageContent[k] \notin {"<", ">"}
    /\ CountTok(pageContent, "lt;") = CountTok(AllText(textItems), "<")
    /\ CountTok(pageContent, "gt;") = CountTok(AllText(textItems), ">")

C14_Witness ==
  /\ pageLines # <<>>
  /\ Len(textItems) = 2
  /\ CountTok(AllText(textItems), "<") = 2
  /\ CountTok(AllText(textItems), ">") = 2
  /\ CountTok(pageContent, "gt;") = 2

\* ------------------------------------------------------------------------
\* PdfReader: page navigation and the renderPage calls it starts.  A
\* renderPage call awaits doc.getPage and page.getTextContent, which the
\* pdf.js worker settles independently per call, so the calls in flight
\* complete in any order.
\* ------------------------------------------------------------------------
convVars == <<textItems, viewHeight, pageLines, pageContent>>

navRest == <<convVars, sanVars, epubVars, bookVars, shelfVars>>

\* loadPdf after setPdfDoc / setTotalPages / setCurrentPage(1), awaiting
\* renderPage(pdfDocument, 1) (lines 71-77)
InitPdfNav ==
  /\ pdfCurrentPage = 1
  /\ pdfTotalPages \in 1..MaxPages
  /\ pdfIsLoading = TRUE
  /\ renders = {[call |-> 1, pageNumber |-> 1]}
  /\ issued = 1
  /\ shownPage = 0
  /\ renderErrors = 0
  /\ ConversionIdle
  /\ SanIdle
  /\ EpubIdle
  /\ BookIdle
  /\ ShelfIdle

\* renderPage(doc, pageNumber) up to its first await
renderPage(pageNumber) ==
  /\ issued < MaxRenders
  /\ renders' = renders \cup {[call |-> issued + 1, pageNumber |-> pageNumber]}
  /\ issued' = issued + 1

\* the navigation bar is rendered past the error and loading returns
PdfNavigable == ~pdfIsLoading

\* PdfReader.nextPage (lines 164-181)
pdfNextPage ==
  /\ PdfNavigable
  /\ pdfCurrentPage < pdfTotalPages
  /\ pdfCurrentPage' = pdfCurrentPage + 1
  /\ renderPage(pdfCurrentPage + 1)
  /\ UNCHANGED <<pdfTotalPages, pdfIsLoading, shownPage, renderErrors, navRest>>

\* PdfReader.prevPage (lines 183-200)
pdfPrevPage ==
  /\ PdfNavigable
  /\ pdfCurrentPage > 1
  /\ pdfCurrentPage' = pdfCurrentPage - 1
  /\ renderPage(pdfCurrentPage - 1)
  /\ UNCHANGED <<pdfTotalPages, pdfIsLoading, shownPage, renderErrors, navRest>>

\* PdfReader.goToPage (lines 202-218)
pdfGoToPage(pageNumber) ==
  /\ PdfNavigable
  /\ pageNumber >= 1 /\ pageNumber <= pdfTotalPages
  /\ pdfCurrentPage' = pageNumber
  /\ renderPage(pageNumber)
  /\ UNCHANGED <<pdfTotalPages, pdfIsLoading, shownPage, renderErrors, navRest>>

\* the "finally" of loadPdf runs when the call it awaits, the first
\* renderPage, has settled
LoadingAfter(r) == IF r.call = 1 THEN FALSE ELSE pdfIsLoading

\* renderPage after its awaits: setPageContent(htmlContent)
RenderCompleted(r) ==
  /\ r \in renders
  /\ renders' = renders \ {r}
  /\ shownPage' = r.pageNumber
  /\ pdfIsLoading' = LoadingAfter(r)
  /\ UNCHANGED <<pdfCurrentPage, pdfTotalPages, issued, renderErrors, navRest>>

\* renderPage, catch branch: onError('Failed to render page')
RenderFailed(r) ==
  /\ r \in renders
  /\ renders' = renders \ {r}
  /\ renderErrors' = renderErrors + 1
  /\ pdfIsLoading' = LoadingAfter(r)
  /\ UNCHANGED <<pdfCurrentPage, pdfTotalPages, issued, shownPage, navRest>>

NextPdfNav ==
  \/ pdfNextPage
  \/ pdfPrevPage
  \/ \E pageNumber \in 1..MaxPages : pdfGoToPage(pageNumber)
  \/ \E r \in renders : RenderCompleted(r)
  \/ \E r \in renders : RenderFailed(r)

SpecPdfNav == InitPdfNav /\ [][NextPdfNav]_vars

\* C24: once no render is pending, the displayed pageContent is the markup
\* of the page numbered currentPage, whatever the order in which the
\* renderPage calls of nextPage / prevPage / goToPage completed (every render
\* having succeeded).
C24_DisplayedPageIsCurrent ==
  (renders = {} /\ renderErrors = 0) => shownPage = pdfCurrentPage

\* ------------------------------------------------------------------------
\* BookReader: one open book, its embedded reader and its progress records.
\* A document is [valid, count]: count is the number of chapters the EPUB
\* extraction yields, or numPages of a PDF that loads; valid = FALSE is a
\* PDF that pdfjs rejects.
\* ------------------------------------------------------------------------
Documents(ft) ==
  IF ft = "epub"
  THEN {[valid |-> TRUE, count |-> n] : n \in 0..MaxPages}
  ELSE {[valid |-> FALSE, count |-> 0]} \cup {[valid |-> TRUE, count |-> n] : n \in 1..MaxPages}

\* Math.round((currentPage / totalPages) * 100) for totalPages > 0; the
\* quotients of the page counts modelled have no fractional part of one half
\* that floating-point division could miss
RoundedPercent(cp, tp) == (200 * cp + tp) \div (2 * tp)

\* the same expression where no guard precedes it: a division by zero
\* yields Infinity
UnguardedPercent(cp, tp) ==
  IF tp = 0 THEN [finite |-> FALSE, value |-> 0]
  ELSE [finite |-> TRUE, value |-> RoundedPercent(cp, tp)]

\* the progress object built at lines 81-86, 121-126 and 137-142
Progress(cp, tp) ==
  [currentPage |-> cp, totalPages |-> tp, percentage |-> RoundedPercent(cp, tp)]

\* the render reaches the header and the embedded reader (lines 237-260)
HeaderRendered == bookPhase = "mounted" /\ ~bookIsLoading /\ bookFileContent # <<>>

\* line 267
HeaderPercent == UnguardedPercent(currentPage, totalPages)

\* line 429
ModalPercent == UnguardedPercent(currentPage, totalPages)

Load(doc, live) == [content |-> doc, live |-> live]

CountOf(doc) == IF doc.valid THEN doc.count ELSE 0

\* the loads that outlive the reader that started them: processEpubContent
\* has no mounted flag, loadPdf returns once mounted is false
Orphaned(ls) == IF fileType = "epub" THEN {Load(l.content, FALSE) : l \in ls} ELSE {}

LastOr(seq, dflt) == IF seq = <<>> THEN dflt ELSE seq[Len(seq)]

\* the effects of BookReader after a render with the given state: the
\* cleanup of the save effect (lines 133-145) runs with the values of the
\* previous render when currentPage or totalPages changed, then the
\* auto-save effect (lines 79-94) runs when one of its dependencies changed;
\* renewed: App rendered again, so onProgressUpdate is a new function
Commit(cp, tp, auto, renewed) ==
  LET moved == <<cp, tp>> # <<currentPage, totalPages>>
      cleanup == IF moved /\ totalPages > 0
                 THEN <<Progress(currentPage, totalPages)>> ELSE <<>>
      rerun == moved \/ auto # autoSaveEnabled \/ renewed
      saved == IF rerun /\ tp > 0 /\ auto THEN <<Progress(cp, tp)>> ELSE <<>>
  IN  /\ currentPage' = cp
      /\ totalPages' = tp
      /\ autoSaveEnabled' = auto
      /\ emits' = saved
      /\ writes' = cleanup \o saved
      /\ stored' = LastOr(cleanup \o saved, stored)

Settled == Commit(currentPage, totalPages, autoSaveEnabled, FALSE)

restVars == <<sanVars, epubVars, pdfVars, shelfVars, fileType>>

InitReader ==
  /\ fileType \in {"epub", "pdf"}
  /\ bookPhase = "constructed"
  /\ appError = ""
  /\ reads = 0
  /\ bookIsLoading = TRUE
  /\ bookFileContent = <<>>
  /\ currentPage = 1
  /\ totalPages = 1
  /\ autoSaveEnabled = TRUE
  /\ showBookmarkModal = FALSE
  /\ readerPage = 1
  /\ readerTotal = 0
  /\ readerError = FALSE
  /\ loads = {}
  /\ rendering = FALSE
  /\ emits = <<>>
  /\ writes = <<>>
  /\ stored = InitialProgress
  /\ SanIdle
  /\ EpubIdle
  /\ PdfIdle
  /\ ShelfIdle

\* the effects of the first render: loadFileContent starts, auto-save runs
BookMounted ==
  /\ bookPhase = "constructed"
  /\ bookPhase' = "mounted"
  /\ reads' = reads + 1
  /\ Commit(currentPage, totalPages, autoSaveEnabled, TRUE)
  /\ UNCHANGED <<appError, bookIsLoading, bookFileContent, showBookmarkModal,
                 readerPage, readerTotal, readerError, loads, rendering, restVars>>

\* App.handleError sets a new message: App renders again, handleError and
\* handleProgressUpdate are new functions, so the load effect of BookReader
\* (deps [filePath, onError]) runs again and the embedded reader is
\* unmounted by the loading view; remaining: the loads in flight; shown: an
\* embedded reader was in the tree and ran its own effect once more
Reloaded(msg, readsLeft, remaining, shown) ==
  /\ appError' = msg
  /\ reads' = readsLeft + 1
  /\ bookIsLoading' = TRUE
  /\ loads' = Orphaned(remaining \cup (IF shown THEN {Load(bookFileContent[1], FALSE)} ELSE {}))
  /\ readerPage' = 1
  /\ readerTotal' = 0
  /\ readerError' = FALSE
  /\ Commit(currentPage, totalPages, autoSaveEnabled, TRUE)

\* a fresh embedded reader is mounted with the document and starts loading
ReaderMounted(doc, remaining) ==
  /\ readerPage' = 1
  /\ readerTotal' = 0
  /\ readerError' = FALSE
  /\ loads' = remaining \cup {Load(doc, TRUE)}

\* loadFileContent, lines 65-66 and 71: the read resolves
FileRead(doc) ==
  /\ bookPhase = "mounted"
  /\ reads > 0
  /\ reads' = reads - 1
  /\ bookFileContent' = <<doc>>
  /\ bookIsLoading' = FALSE
  /\ IF HeaderRendered
     THEN /\ loads' = (IF fileType = "epub" THEN loads ELSE {}) \cup {Load(doc, TRUE)}
          /\ readerError' = FALSE
          /\ UNCHANGED <<readerPage, readerTotal>>
     ELSE ReaderMounted(doc, loads)
  /\ Settled
  /\ UNCHANGED <<bookPhase, appError, showBookmarkModal, rendering, restVars>>

\* loadFileContent, lines 67-71: the read rejects
FileReadFailed ==
  /\ bookPhase = "mounted"
  /\ reads > 0
  /\ IF appError # "Failed to load file"
     THEN Reloaded("Failed to load file", reads - 1, loads, bookFileContent # <<>>)
     ELSE /\ reads' = reads - 1
          /\ bookIsLoading' = FALSE
          /\ IF ~HeaderRendered /\ bookFileContent # <<>>
             THEN ReaderMounted(bookFileContent[1], loads)
             ELSE UNCHANGED <<readerPage, readerTotal, readerError, loads>>
          /\ Settled
          /\ UNCHANGED appError
  /\ UNCHANGED <<bookPhase, bookFileContent, showBookmarkModal, rendering, restVars>>

\* EpubReader lines 49-51 and PdfReader lines 71-77: the load of the
\* embedded reader completes and reports the count
ReaderLoaded(l) ==
  /\ bookPhase = "mounted"
  /\ l \in loads
  /\ fileType = "pdf" => l.content.valid
  /\ loads' = loads \ {l}
  /\ IF l.live
     THEN /\ readerTotal' = CountOf(l.content)
          /\ readerPage' = IF fileType = "pdf" THEN 1 ELSE readerPage
          /\ rendering' = IF fileType = "pdf" THEN TRUE ELSE rendering
     ELSE UNCHANGED <<readerTotal, readerPage, rendering>>
  /\ Commit(currentPage, CountOf(l.content), autoSaveEnabled, FALSE)
  /\ UNCHANGED <<bookPhase, appError, reads, bookIsLoading, bookFileContent,
                 showBookmarkModal, readerError, restVars>>

\* PdfReader lines 64-67 and 79-83: pdfjs rejects the document
PdfLoadFailed(l) ==
  /\ bookPhase = "mounted"
  /\ fileType = "pdf"
  /\ l \in loads
  /\ ~l.content.valid
  /\ IF appError # "Failed to load PDF document"
     THEN Reloaded("Failed to load PDF document", reads, loads \ {l}, TRUE)
     ELSE /\ loads' = loads \ {l}
          /\ readerError' = TRUE
          /\ Settled
          /\ UNCHANGED <<appError, reads, bookIsLoading, readerPage, readerTotal>>
  /\ UNCHANGED <<bookPhase, bookFileContent, showBookmarkModal, rendering, restVars>>

\* the embedded reader shows its navigation bar
ReaderNavigable ==
  /\ HeaderRendered
  /\ ~readerError
  /\ \A l \in loads : ~l.live

\* PdfReader.nextPage, EpubReader.nextChapter
nextPage ==
  /\ ReaderNavigable
  /\ readerPage < readerTotal
  /\ readerPage' = readerPage + 1
  /\ rendering' = IF fileType = "pdf" THEN TRUE ELSE rendering
  /\ Commit(readerPage + 1, totalPages, autoSaveEnabled, FALSE)
  /\ UNCHANGED <<bookPhase, appError, reads, bookIsLoading, bookFileContent,
                 showBookmarkModal, readerTotal, readerError, loads, restVars>>

\* PdfReader.prevPage, EpubReader.prevChapter
prevPage ==
  /\ ReaderNavigable
  /\ readerPage > 1
  /\ readerPage' = readerPage - 1
  /\ rendering' = IF fileType = "pdf" THEN TRUE ELSE rendering
  /\ Commit(readerPage - 1, totalPages, autoSaveEnabled, FALSE)
  /\ UNCHANGED <<bookPhase, appError, reads, bookIsLoading, bookFileContent,
                 showBookmarkModal, readerTotal, readerError, loads, restVars>>

\* PdfReader.goToPage, called from the page input (lines 265-270)
goToPage(pageNumber) ==
  /\ ReaderNavigable
  /\ fileType = "pdf"
  /\ pageNumber # readerPage
  /\ pageNumber >= 1 /\ pageNumber <= readerTotal
  /\ readerPage' = pageNumber
  /\ rendering' = TRUE
  /\ Commit(pageNumber, totalPages, autoSaveEnabled, FALSE)
  /\ UNCHANGED <<bookPhase, appError, reads, bookIsLoading, bookFileContent,
                 showBookmarkModal, readerTotal, readerError, loads, restVars>>

\* PdfReader.renderPage, lines 102-110
PageRendered ==
  /\ bookPhase = "mounted"
  /\ rendering
  /\ rendering' = FALSE
  /\ Settled
  /\ UNCHANGED <<bookPhase, appError, reads, bookIsLoading, bookFileContent, showBookmarkModal,
                 readerPage, readerTotal, readerError, loads, restVars>>

\* PdfReader.renderPage, lines 111-114
PageRenderFailed ==
  /\ bookPhase = "mounted"
  /\ rendering
  /\ rendering' = FALSE
  /\ IF appError # "Failed to render page"
     THEN Reloaded("Failed to render page", reads, loads, HeaderRendered)
     ELSE /\ Settled
          /\ UNCHANGED <<appError, reads, bookIsLoading, readerPage, readerTotal,
                         readerError, loads>>
  /\ UNCHANGED <<bookPhase, bookFileContent, showBookmarkModal, restVars>>

\* the auto-save checkbox of the settings panel, line 385
ToggleAutoSave ==
  /\ HeaderRendered
  /\ Commit(currentPage, totalPages, ~autoSaveEnabled, FALSE)
  /\ UNCHANGED <<bookPhase, appError, reads, bookIsLoading, bookFileContent, showBookmarkModal,
                 readerPage, readerTotal, readerError, loads, rendering, restVars>>

\* the bookmark button, line 287
OpenBookmarkModal ==
  /\ HeaderRendered
  /\ ~showBookmarkModal
  /\ showBookmarkModal' = TRUE
  /\ Settled
  /\ UNCHANGED <<bookPhase, appError, reads, bookIsLoading, bookFileContent,
                 readerPage, readerTotal, readerError, loads, rendering, restVars>>

\* the cancel button of the modal, line 455
CloseBookmarkModal ==
  /\ HeaderRendered
  /\ showBookmarkModal
  /\ showBookmarkModal' = FALSE
  /\ Settled
  /\ UNCHANGED <<bookPhase, appError, reads, bookIsLoading, bookFileContent,
                 readerPage, readerTotal, readerError, loads, rendering, restVars>>

\* the progress written by handleBeforeUnload and by the cleanup on unmount
LeavingWrites == IF totalPages > 0 THEN <<Progress(currentPage, totalPages)>> ELSE <<>>

\* onClose: App.handleCloseBook unmounts BookReader, the cleanup of lines
\* 133-145 runs
CloseBook ==
  /\ bookPhase = "mounted"
  /\ ~bookIsLoading
  /\ bookPhase' = "closed"
  /\ emits' = <<>>
  /\ writes' = LeavingWrites
  /\ stored' = LastOr(LeavingWrites, stored)
  /\ UNCHANGED <<appError, reads, bookIsLoading, bookFileContent, currentPage, totalPages,
                 autoSaveEnabled, showBookmarkModal, readerPage, readerTotal, readerError,
                 loads, rendering, restVars>>

\* handleBeforeUnload, lines 119-129: the window is closing
BeforeUnload ==
  /\ bookPhase = "mounted"
  /\ bookPhase' = "unloaded"
  /\ emits' = <<>>
  /\ writes' = LeavingWrites
  /\ stored' = LastOr(LeavingWrites, stored)
  /\ UNCHANGED <<appError, reads, bookIsLoading, bookFileContent, currentPage, totalPages,
                 autoSaveEnabled, showBookmarkModal, readerPage, readerTotal, readerError,
                 loads, rendering, restVars>>

\* BookShelf.handleBookSelect and App.handleBookSelect, lines 130-136: the
\* closed book is selected again, a new BookReader is constructed from the
\* file path and type alone (App.handleCloseBook had cleared the error)
ReopenBook ==
  /\ bookPhase = "closed"
  /\ bookPhase' = "constructed"
  /\ appError' = ""
  /\ reads' = 0
  /\ bookIsLoading' = TRUE
  /\ bookFileContent' = <<>>
  /\ currentPage' = 1
  /\ totalPages' = 1
  /\ autoSaveEnabled' = TRUE
  /\ showBookmarkModal' = FALSE
  /\ readerPage' = 1
  /\ readerTotal' = 0
  /\ readerError' = FALSE
  /\ loads' = {}
  /\ rendering' = FALSE
  /\ emits' = <<>>
  /\ writes' = <<>>
  /\ UNCHANGED <<stored, restVars>>

NextReader ==
  \/ BookMounted
  \/ \E doc \in Documents(fileType) : FileRead(doc)
  \/ FileReadFailed
  \/ \E l \in loads : ReaderLoaded(l)
  \/ \E l \in loads : PdfLoadFailed(l)
  \/ nextPage
  \/ prevPage
  \/ \E pageNumber \in 1..MaxPages : goToPage(pageNumber)
  \/ PageRendered
  \/ PageRenderFailed
  \/ ToggleAutoSave
  \/ OpenBookmarkModal
  \/ CloseBookmarkModal
  \/ CloseBook
  \/ BeforeUnload
  \/ ReopenBook

SpecReader == InitReader /\ [][NextReader]_vars

\* p is x rounded to the nearest integer, halves upwards, for x = 100 * c / t
IsRoundedPercent(p, c, t) ==
  /\ 2 * (100 * c - p * t) <= t
  /\ 2 * (p * t - 100 * c) < t

\* percentage(current, total): the rounded percentage when total > 0, else 0
IsPercentage(p, c, t) == IF t > 0 THEN IsRoundedPercent(p, c, t) ELSE p = 0

RecordsOfStep == {emits[k] : k \in 1..Len(emits)} \cup {writes[k] : k \in 1..Len(writes)}

\* C7: at every place BookReader computes a percentage (the auto-save
\* effect, the save on unmount and beforeunload, the header and the
\* bookmark modal) the value is round(current / total * 100) when
\* total > 0 and 0 when total is 0.
C7_PercentageAtEveryPlace ==
  /\ \A r \in RecordsOfStep : IsPercentage(r.percentage, r.currentPage, r.totalPages)
  /\ HeaderRendered =>
       HeaderPercent.finite /\ IsPercentage(HeaderPercent.value, currentPage, totalPages)
  /\ (HeaderRendered /\ showBookmarkModal) =>
       ModalPercent.finite /\ IsPercentage(ModalPercent.value, currentPage, totalPages)

\* C8: every progress record emitted through onProgressUpdate or written to
\* the store has percentage = round(currentPage / totalPages * 100) within
\* 0..100, that is, currentPage does not exceed totalPages.
C8_RecordedProgressInRange ==
  \A r \in RecordsOfStep :
    /\ r.totalPages > 0
    /\ IsRoundedPercent(r.percentage, r.currentPage, r.totalPages)
    /\ r.percentage >= 0
    /\ r.percentage <= 100
    /\ r.currentPage <= r.totalPages

\* C12: a book read to position p, closed and reopened starts at position p,
\* the progress last saved for it, and opening the book does not replace a
\* saved progress beyond page 1 by a page-1 record.
C12_ResumeReading ==
  [][/\ (bookPhase = "closed" /\ bookPhase' = "constructed") =>
          currentPage' = stored.currentPage
     /\ (bookPhase = "constructed" /\ bookPhase' = "mounted" /\ stored.currentPage > 1) =>
          stored'.currentPage = stored.currentPage]_vars

\* C26: the currentPage BookReader records (and saves as progress, uses for
\* new bookmarks) equals the 1-based position the embedded reader is
\* displaying, after any loads and reloads, count notifications, navigation
\* steps and error callbacks.
C26_RecordedPageIsDisplayedPage ==
  ReaderNavigable => currentPage = readerPage

\* C27: while auto-save is disabled, no step of the mounted BookReader
\* (navigation, re-render, unmount) writes a progress record to the store or
\* calls onProgressUpdate: the stored progress stays what it was.
C27_NoSaveWhileAutoSaveOff ==
  [][(bookPhase = "mounted" /\ ~autoSaveEnabled /\ ~autoSaveEnabled') =>
       (writes' = <<>> /\ emits' = <<>> /\ stored' = stored)]_vars

\* ------------------------------------------------------------------------
\* App, BookShelf and the bookshelf store (localStorage item
\* bookshelf_books).  A book is [id, filePath, bookmarks, progress], a
\* bookmark [id, page]; the reader appears through its two writers,
\* saveProgressToStorage and addBookmarkToStorage.
\* ------------------------------------------------------------------------
FilePaths == {"a.epub", "b.pdf"}

BookmarkPages == {1, 2}

\* progress records the reader writes
ProgressSamples == {Progress(1, 1), Progress(2, 3)}

\* JSON.parse(localStorage.getItem('bookshelf_books')), [] when absent
StoredBooks == IF storage = <<>> THEN <<>> ELSE storage[1]

MapBooks(bs, F(_)) == [k \in 1..Len(bs) |-> F(bs[k])]

\* App.addBookToBookshelf, lines 75-117
addBookToBookshelf(filePath) ==
  IF \E k \in 1..Len(StoredBooks) : StoredBooks[k].filePath = filePath
  THEN storage
  ELSE <<(<<[id |-> now, filePath |-> filePath, bookmarks |-> <<>>,
             progress |-> InitialProgress]>> \o StoredBooks)>>

\* the books state of the render whose effect registered handleBeforeUnload
\* (useState([]), effect with no dependencies)
booksAtMount == <<>>

\* BookShelf is mounted: loadBooks, then the auto-save effect writes the
\* loaded books back
ShelfMounted ==
  /\ books' = StoredBooks'
  /\ selectedBook' = <<>>
  /\ showBookmarks' = FALSE

ShelfUnmounted ==
  /\ books' = <<>>
  /\ selectedBook' = <<>>
  /\ showBookmarks' = FALSE

InitShelf ==
  /\ viewMode = "bookshelf"
  /\ currentBook = ""
  /\ storage = <<>>
  /\ books = <<>>
  /\ selectedBook = <<>>
  /\ showBookmarks = FALSE
  /\ now = 0
  /\ windowOpen = TRUE
  /\ SanIdle
  /\ EpubIdle
  /\ PdfIdle
  /\ BookIdle

otherVars == <<sanVars, epubVars, pdfVars, bookVars>>

\* the clock advances
Tick ==
  /\ windowOpen
  /\ now < MaxClock
  /\ now' = now + 1
  /\ UNCHANGED <<viewMode, currentBook, storage, books, selectedBook, showBookmarks,
                 windowOpen, otherVars>>

\* the Import button of the bookshelf view, App line 229
ShowImport ==
  /\ windowOpen
  /\ viewMode = "bookshelf"
  /\ ~showBookmarks
  /\ viewMode' = "import"
  /\ ShelfUnmounted
  /\ UNCHANGED <<currentBook, storage, now, windowOpen, otherVars>>

\* the Bookshelf button of the import view, App line 306
ShowBookshelf ==
  /\ windowOpen
  /\ viewMode = "import"
  /\ viewMode' = "bookshelf"
  /\ UNCHANGED storage
  /\ ShelfMounted
  /\ UNCHANGED <<currentBook, now, windowOpen, otherVars>>

\* App.handleFileSelected, lines 65-73
handleFileSelected(filePath) ==
  /\ windowOpen
  /\ viewMode = "import"
  /\ storage' = addBookToBookshelf(filePath)
  /\ currentBook' = filePath
  /\ viewMode' = "reader"
  /\ UNCHANGED <<books, selectedBook, showBookmarks, now, windowOpen, otherVars>>

\* BookShelf.handleBookSelect and App.handleBookSelect
handleBookSelect(k) ==
  /\ windowOpen
  /\ viewMode = "bookshelf"
  /\ ~showBookmarks
  /\ k \in 1..Len(books)
  /\ currentBook' = books[k].filePath
  /\ viewMode' = "reader"
  /\ ShelfUnmounted
  /\ UNCHANGED <<storage, now, windowOpen, otherVars>>

\* App.handleCloseBook, lines 124-128
handleCloseBook ==
  /\ windowOpen
  /\ viewMode = "reader"
  /\ currentBook' = ""
  /\ viewMode' = "bookshelf"
  /\ UNCHANGED storage
  /\ ShelfMounted
  /\ UNCHANGED <<now, windowOpen, otherVars>>

\* a progress writer that does not compare file paths
saveProgressToEveryBook(progress) ==
  /\ windowOpen
  /\ viewMode = "reader"
  /\ storage # <<>>
  /\ storage' = <<MapBooks(StoredBooks, LAMBDA book : [book EXCEPT !.progress = progress])>>
  /\ UNCHANGED <<viewMode, currentBook, books, selectedBook, showBookmarks, now,
                 windowOpen, otherVars>>

\* BookReader.saveProgressToStorage, lines 148-168
saveProgressToStorage(progress) ==
  /\ windowOpen
  /\ viewMode = "reader"
  /\ storage # <<>>
  /\ storage' = <<MapBooks(StoredBooks,
                    LAMBDA book : IF book.filePath = currentBook
                                  THEN [book EXCEPT !.progress = progress]
                                  ELSE book)>>
  /\ UNCHANGED <<viewMode, currentBook, books, selectedBook, showBookmarks, now,
                 windowOpen, otherVars>>

\* BookReader.addBookmarkToStorage, lines 207-231
addBookmarkToStorage(page) ==
  /\ windowOpen
  /\ viewMode = "reader"
  /\ storage # <<>>
  /\ \A k \in 1..Len(StoredBooks) : Len(StoredBooks[k].bookmarks) < MaxBookmarks
  /\ storage' = <<MapBooks(StoredBooks,
                    LAMBDA book : IF book.filePath = currentBook
                                  THEN [book EXCEPT !.bookmarks =
                                          Append(@, [id |-> now, page |-> page])]
                                  ELSE book)>>
  /\ UNCHANGED <<viewMode, currentBook, books, selectedBook, showBookmarks, now,
                 windowOpen, otherVars>>

\* BookShelf.saveBooks, lines 103-110
saveBooks(updatedBooks) ==
  /\ storage' = <<updatedBooks>>
  /\ books' = updatedBooks

\* BookShelf.handleBookmarkClick, lines 215-218
handleBookmarkClick(k) ==
  /\ windowOpen
  /\ viewMode = "bookshelf"
  /\ ~showBookmarks
  /\ k \in 1..Len(books)
  /\ selectedBook' = <<books[k]>>
  /\ showBookmarks' = TRUE
  /\ UNCHANGED <<viewMode, currentBook, storage, books, now, windowOpen, otherVars>>

\* the Close button of BookmarksModal, line 410
CloseBookmarks ==
  /\ windowOpen
  /\ viewMode = "bookshelf"
  /\ showBookmarks
  /\ showBookmarks' = FALSE
  /\ UNCHANGED <<viewMode, currentBook, storage, books, selectedBook, now, windowOpen,
                 otherVars>>

\* BookShelf.addBookmark, lines 180-193, called by BookmarksModal with the
\* id of the book it was opened for
addBookmark(page) ==
  /\ windowOpen
  /\ viewMode = "bookshelf"
  /\ showBookmarks
  /\ \A k \in 1..Len(books) : Len(books[k].bookmarks) < MaxBookmarks
  /\ saveBooks(MapBooks(books,
       LAMBDA book : IF book.id = selectedBook[1].id
                     THEN [book EXCEPT !.bookmarks = Append(@, [id |-> now, page |-> page])]
                     ELSE book))
  /\ UNCHANGED <<viewMode, currentBook, selectedBook, showBookmarks, now, windowOpen,
                 otherVars>>

\* BookShelf.removeBookmark, lines 195-202, called by BookmarksModal for a
\* bookmark of the book as it was when the modal was opened
removeBookmark(k) ==
  /\ windowOpen
  /\ viewMode = "bookshelf"
  /\ showBookmarks
  /\ k \in 1..Len(selectedBook[1].bookmarks)
  /\ saveBooks(MapBooks(books,
       LAMBDA book : IF book.id = selectedBook[1].id
                     THEN [book EXCEPT !.bookmarks =
                             SelectSeq(@, LAMBDA bm : bm.id # selectedBook[1].bookmarks[k].id)]
                     ELSE book))
  /\ UNCHANGED <<viewMode, currentBook, selectedBook, showBookmarks, now, windowOpen,
                 otherVars>>

\* BookShelf.removeBook, lines 204-208
removeBook(k) ==
  /\ windowOpen
  /\ viewMode = "bookshelf"
  /\ ~showBookmarks
  /\ k \in 1..Len(books)
  /\ saveBooks(SelectSeq(books, LAMBDA book : book.id # books[k].id))
  /\ UNCHANGED <<viewMode, currentBook, selectedBook, showBookmarks, now, windowOpen,
                 otherVars>>

\* the window unloads while the bookshelf is displayed: handleBeforeUnload
\* of BookShelf, lines 55-57
handleBeforeUnload ==
  /\ windowOpen
  /\ viewMode = "bookshelf"
  /\ windowOpen' = FALSE
  /\ saveBooks(booksAtMount)
  /\ UNCHANGED <<viewMode, currentBook, selectedBook, showBookmarks, now, otherVars>>

\* the window unloads in another view
WindowUnloaded ==
  /\ windowOpen
  /\ viewMode # "bookshelf"
  /\ windowOpen' = FALSE
  /\ UNCHANGED <<viewMode, currentBook, storage, books, selectedBook, showBookmarks, now,
                 otherVars>>

NextShelf ==
  \/ Tick
  \/ ShowImport
  \/ ShowBookshelf
  \/ \E filePath \in FilePaths : handleFileSelected(filePath)
  \/ \E k \in 1..Len(books) : handleBookSelect(k)
  \/ handleCloseBook
  \/ \E progress \in ProgressSamples : saveProgressToStorage(progress)
  \/ \E page \in BookmarkPages : addBookmarkToStorage(page)
  \/ \E k \in 1..Len(books) : handleBookmarkClick(k)
  \/ CloseBookmarks
  \/ \E page \in BookmarkPages : addBookmark(page)
  \/ \E k \in 1..MaxBookmarks : removeBookmark(k)
  \/ \E k \in 1..Len(books) : removeBook(k)
  \/ handleBeforeUnload
  \/ WindowUnloaded

SpecShelf == InitShelf /\ [][NextShelf]_vars

IdsDistinct(bookmarks) ==
  \A i, j \in 1..Len(bookmarks) : i # j => bookmarks[i].id # bookmarks[j].id

\* C11: after any additions and removals of bookmarks, from the reader and
\* from the bookshelf, the bookmark ids within one book are pairwise distinct.
C11_BookmarkIdsDistinct ==
  /\ \A k \in 1..Len(StoredBooks) : IdsDistinct(StoredBooks[k].bookmarks)
  /\ \A k \in 1..Len(books) : IdsDistinct(books[k].bookmarks)

\* C13: when the window unloads while the bookshelf is displayed, every
\* book record of the store, with its bookmarks and progress, is still in
\* the store afterwards.
C13_UnloadKeepsBooks ==
  [][(viewMode = "bookshelf" /\ windowOpen /\ ~windowOpen') =>
       \A k \in 1..Len(StoredBooks) :
         \E j \in 1..Len(StoredBooks') : StoredBooks'[j] = StoredBooks[k]]_vars

\* ------------------------------------------------------------------------
\* The two store writers of an open reader, applied to a given store
\* ------------------------------------------------------------------------
StoreBook(id, filePath, progress) ==
  [id |-> id, filePath |-> filePath, bookmarks |-> <<>>, progress |-> progress]

StoreProgress == {InitialProgress, Progress(1, 1)}

\* the item is absent, an empty list, one book, or two books
WriterStores ==
  {<<>>, <<(<<>>)>>}
  \cup {<<(<<StoreBook(0, f, p)>>)>> : f \in FilePaths, p \in StoreProgress}
  \cup UNION {{<<(<<StoreBook(1, f, p), StoreBook(0, g, q)>>)>> :
                 g \in FilePaths \ {f}, p \in StoreProgress, q \in StoreProgress} :
               f \in FilePaths}

\* BookReader is open on currentBook
InitWriters ==
  /\ viewMode = "reader"
  /\ currentBook \in FilePaths
  /\ storage \in WriterStores
  /\ books = <<>>
  /\ selectedBook = <<>>
  /\ showBookmarks = FALSE
  /\ now = 0
  /\ windowOpen = TRUE
  /\ SanIdle
  /\ EpubIdle
  /\ PdfIdle
  /\ BookIdle

NextWriters ==
  \/ Tick
  \/ \E progress \in ProgressSamples : saveProgressToStorage(progress)
  \/ \E page \in BookmarkPages : addBookmarkToStorage(page)

SpecWriters == InitWriters /\ [][NextWriters]_vars

\* C28: the writers of the open reader, saveProgressToStorage and
\* addBookmarkToStorage, change only the stored records whose filePath is the
\* open book's: no record is created or removed, the order is kept, every
\* other book is unchanged, and an absent store stays absent.
C28_WritersTouchOnlyOpenBook ==
  [][(viewMode = "reader" /\ viewMode' = "reader") =>
       /\ storage = <<>> => storage' = <<>>
       /\ storage # <<>> =>
            /\ storage' # <<>>
            /\ Len(storage'[1]) = Len(storage[1])
            /\ \A k \in 1..Len(storage[1]) :
                  /\ storage'[1][k].filePath = storage[1][k].filePath
                  /\ storage'[1][k].id = storage[1][k].id
                  /\ storage[1][k].filePath # currentBook =>
                       storage'[1][k] = storage[1][k]]_vars

C28_Witness ==
  /\ viewMode = "reader"
  /\ Len(StoredBooks) = 2
  /\ \E j, k \in 1..2 :
        /\ StoredBooks[j].filePath = currentBook
        /\ StoredBooks[j].progress = Progress(2, 3)
        /\ StoredBooks[j].bookmarks # <<>>
        /\ StoredBooks[k].filePath # currentBook
        /\ StoredBooks[k].progress = Progress(1, 1)

====
